---- MODULE Spec2Model ----
(***************************************************************************)
(* Performance monitoring core of rn077demo:                               *)
(*   - FlatListPerformanceMonitor (src/src/utils/FlatListPerformanceMonitor.ts) *)
(*   - PerformanceMonitor        (src/src/utils/PerformanceMonitor.ts)     *)
(* together with the host facilities they call: the clock                  *)
(* (performance.now / Date.now), the frame scheduler                       *)
(* (requestAnimationFrame / cancelAnimationFrame) and the memory sampler   *)
(* (performance.memory or Math.random).                                    *)
(*                                                                         *)
(* Time is counted in ticks of 0.01 ms, so that the dropped-frame          *)
(* threshold 16.67 * 2 ms is the integer 3334.  performance.now() reads    *)
(* the clock in ticks; Date.now() reads it in whole milliseconds.          *)
(***************************************************************************)
EXTENDS Integers, Sequences, FiniteSets, TLC

VARIABLES
    now,              \* host clock, in ticks of 0.01 ms
    pending,          \* host: handles of the frame callbacks scheduled and not yet run
    isMonitoring,     \* FlatListPerformanceMonitor.isMonitoring
    frameCount,       \* FlatListPerformanceMonitor.frameCount
    droppedFrames,    \* FlatListPerformanceMonitor.droppedFrames
    scrollEventCount, \* FlatListPerformanceMonitor.scrollEventCount
    lastFrameTime,    \* FlatListPerformanceMonitor.lastFrameTime
    renderStartTime,  \* FlatListPerformanceMonitor.renderStartTime
    rafId,            \* FlatListPerformanceMonitor.rafId (Null or a handle)
    metrics,          \* FlatListPerformanceMonitor.metrics
    loadStartTimes,   \* PerformanceMonitor.loadStartTimes (Undefined = no entry)
    screenMetrics,    \* PerformanceMonitor.metrics
    renderSession,    \* history: the startRenderTiming calls not yet followed by an end
    screenSession,    \* history: per screen, the startScreenLoad calls not yet ended
    stale,            \* history: callbacks still scheduled when the last stop returned
    monitorStart,     \* history: clock at the startMonitoring call that opened the session
    errorLogs,        \* ErrorHandler.errorLogs
    errorCount,       \* history: how many errors were logged since construction
    logged,           \* history: every error logged since the last clear, newest first
    last              \* history: the last call, what it saw and what it returned

monitorVars == <<isMonitoring, frameCount, droppedFrames, scrollEventCount,
                 lastFrameTime, renderStartTime, rafId, metrics>>
screenVars == <<loadStartTimes, screenMetrics>>
historyVars == <<renderSession, screenSession, stale, monitorStart>>
errorVars == <<errorLogs, errorCount, logged>>
vars == <<now, pending, monitorVars, screenVars, historyVars, errorVars, last>>

----------------------------------------------------------------------------
(* Bounds of the model *)

MaxNow == 3335
MaxFrames == 2
MaxScroll == 1
MaxHandle == 1
MaxLoads == 2
MaxErrors == 102

(* Program constants *)

FrameBudget == 1667
HeapLimit == 100000000

TickSteps == {1667, 3335}
Handles == 0..MaxHandle
Screens == {"HomeScreen", "ProfileScreen"}
ListInputs == {<<100, 20, 35>>, <<100, 20, 10>>}
UsedChoices == {10000000, 59999999}
TotalChoices == {60000000}

Null == -1
Undefined == -1
NoSession == [at |-> -1, n |-> 0]
NoRet == <<>>

----------------------------------------------------------------------------
(* Host facilities *)

\* performance.now(): the clock, in ticks.
PerformanceNow(t) == t

\* Date.now(): the clock in whole milliseconds.
DateNow(t) == t \div 100

\* What one reading of the heap yields: performance.memory when the host has it,
\* otherwise the Math.random placeholder of updateMemoryUsage.
MemSamples ==
    { [jsHeapSizeUsed |-> u, jsHeapSizeTotal |-> t, jsHeapSizeLimit |-> HeapLimit] :
        u \in UsedChoices, t \in TotalChoices }

\* JavaScript truthiness of a number-or-absent value: absent and 0 are falsy.
Truthy(x) == x # Undefined /\ x # 0

----------------------------------------------------------------------------
(* Numbers of the metrics record *)

RECURSIVE GCD(_, _)
GCD(a, b) == IF b = 0 THEN a ELSE GCD(b, a % b)

\* A JavaScript quotient n / d of non-negative numbers, kept as a reduced
\* fraction; d = 0 gives NaN (0/0) or Infinity (n/0).
Quotient(n, d) ==
    IF d = 0 THEN [n |-> (IF n = 0 THEN 0 ELSE 1), d |-> 0]
    ELSE LET g == GCD(n, d) IN [n |-> n \div g, d |-> d \div g]

ZeroMetrics ==
    [ renderTime |-> 0,
      scrollPerformance |-> [averageFPS |-> [n |-> 0, d |-> 1],
                             droppedFrames |-> 0,
                             scrollEvents |-> 0],
      memoryUsage |-> [jsHeapSizeUsed |-> 0, jsHeapSizeTotal |-> 0, jsHeapSizeLimit |-> 0],
      listMetrics |-> [totalItems |-> 0, visibleItems |-> 0,
                       renderedItems |-> 0, recycledItems |-> 0] ]

Max(a, b) == IF a >= b THEN a ELSE b

\* The record of a call: its name, whether the call before it was the same one,
\* whether the call before it was reset, its argument, whether the sampler was
\* Running when it was made, the timing session that was open when a timing end
\* was made, its result, and what the summary object returned by the call
\* before it (if that was getMetrics) holds now, and whether it ended by
\* raising an exception.
Call(op) == [op |-> op, repeat |-> FALSE, afterReset |-> FALSE, arg |-> 0,
             wasActive |-> FALSE, session |-> NoSession, ret |-> NoRet,
             held |-> NoRet, raised |-> FALSE]

----------------------------------------------------------------------------
Init ==
    /\ now = 0
    /\ pending = {}
    /\ isMonitoring = FALSE
    /\ frameCount = 0
    /\ droppedFrames = 0
    /\ scrollEventCount = 0
    /\ lastFrameTime = 0
    /\ renderStartTime = 0
    /\ rafId = Null
    /\ metrics = ZeroMetrics
    /\ loadStartTimes = [s \in Screens |-> Undefined]
    /\ screenMetrics = <<>>
    /\ renderSession = NoSession
    /\ screenSession = [s \in Screens |-> NoSession]
    /\ stale = {}
    /\ monitorStart = 0
    /\ errorLogs = <<>>
    /\ errorCount = 0
    /\ logged = <<>>
    /\ last = Call("init")

\* The clock advances.
Tick(d) ==
    /\ now + d <= MaxNow
    /\ now' = now + d
    /\ last' = Call("tick")
    /\ UNCHANGED <<pending, monitorVars, screenVars, historyVars, errorVars>>

----------------------------------------------------------------------------
(* FlatListPerformanceMonitor *)

\* Mutant: the double-start guard is missing.
AlreadyMonitoringNever(mon) == FALSE

\* startMonitoring, line 64: if (this.isMonitoring) return;
AlreadyMonitoring(mon) == mon

\* stopMonitoring, line 81: if (this.rafId)
HasHandle(id) == Truthy(id)

\* Mutant: the end records an elapsed time whether or not a start is pending.
RenderTimingPendingAlways(rst) == TRUE

\* endRenderTiming, line 98: if (this.renderStartTime > 0)
RenderTimingPending(rst) == rst > 0

\* Mutant: an interval equal to the threshold counts as a dropped frame.
IsDroppedFrameInclusive(deltaTime) == deltaTime >= FrameBudget * 2

\* monitorFrame, line 129: if (deltaTime > 16.67 * 2)
IsDroppedFrame(deltaTime) == deltaTime > FrameBudget * 2

\* Mutant: a dropped frame is counted twice.
CountDroppedTwice(dropped, deltaTime) ==
    IF IsDroppedFrame(deltaTime) THEN dropped + 2 ELSE dropped

\* monitorFrame, lines 129-131: if (deltaTime > 16.67 * 2) this.droppedFrames++
CountDropped(dropped, deltaTime) ==
    IF IsDroppedFrame(deltaTime) THEN dropped + 1 ELSE dropped

\* Mutant: the difference is not clamped at 0.
RecycledItemsUnclamped(renderedItems, visibleItems) == renderedItems - visibleItems

\* updateListMetrics, line 116: Math.max(0, renderedItems - visibleItems)
RecycledItems(renderedItems, visibleItems) == Max(0, renderedItems - visibleItems)

\* updateMetrics with updateMemoryUsage: the metrics record after the call, for
\* the counters fc, df and lft read at clock t and the heap reading mem.
\* monitoringDuration = (now - (lastFrameTime - frameCount * 16.67)) / 1000 s,
\* so averageFPS = frameCount * 100000 / (t - lft + fc * 1667) with t in ticks.
UpdateMetrics(m, fc, df, lft, t, mem) ==
    [m EXCEPT !.scrollPerformance.averageFPS =
                  Quotient(fc * 100000, PerformanceNow(t) - lft + fc * FrameBudget),
              !.scrollPerformance.droppedFrames = df,
              !.memoryUsage = mem]

\* getMetrics, line 174: return { ...this.metrics } copies renderTime and the
\* references to the nested objects.  updateMetrics and recordScrollEvent
\* assign to the fields of this.metrics.scrollPerformance in place, so the
\* returned summary sees them; memoryUsage and listMetrics are replaced by new
\* objects, which it does not see.  Held(summary, m) is what a summary returned
\* earlier holds once the record has become m by such assignments.
Held(summary, m) == [summary EXCEPT !.scrollPerformance = m.scrollPerformance]

\* What the summary returned by the call before this one holds once the record
\* has become m, if that call was getMetrics.
LastSummary(m) == IF last.op = "getMetrics" THEN Held(last.ret, m) ELSE NoRet

\* requestAnimationFrame(monitorFrame) with the callbacks q already scheduled:
\* the host hands out any handle not in use.
FreeHandles(q) == Handles \ q

startMonitoring ==
    /\ last' = [Call("startMonitoring") EXCEPT !.wasActive = isMonitoring]
    /\ IF AlreadyMonitoring(isMonitoring)
       THEN UNCHANGED <<pending, monitorVars, monitorStart>>
       ELSE /\ isMonitoring' = TRUE
            /\ monitorStart' = now
            /\ frameCount' = 0
            /\ droppedFrames' = 0
            /\ scrollEventCount' = 0
            /\ lastFrameTime' = PerformanceNow(now)
            /\ \E h \in FreeHandles(pending) :
                  /\ rafId' = h
                  /\ pending' = pending \cup {h}
            /\ UNCHANGED <<renderStartTime, metrics>>
    /\ UNCHANGED <<now, errorVars, screenVars, renderSession, screenSession, stale>>

\* startMonitoring on a host that has no requestAnimationFrame: the fields are
\* set at lines 66-70, then the call at line 137 raises a ReferenceError before
\* rafId is assigned, and the exception leaves startMonitoring.
startMonitoringNoScheduler ==
    /\ IF AlreadyMonitoring(isMonitoring)
       THEN /\ last' = [Call("startMonitoring") EXCEPT !.wasActive = TRUE]
            /\ UNCHANGED <<monitorVars, monitorStart>>
       ELSE /\ isMonitoring' = TRUE
            /\ monitorStart' = now
            /\ frameCount' = 0
            /\ droppedFrames' = 0
            /\ scrollEventCount' = 0
            /\ lastFrameTime' = PerformanceNow(now)
            /\ last' = [Call("startMonitoring") EXCEPT !.raised = TRUE]
            /\ UNCHANGED <<renderStartTime, rafId, metrics>>
    /\ UNCHANGED <<now, errorVars, pending, screenVars, renderSession, screenSession, stale>>

\* stopMonitoring; logPerformanceReport reads getMetrics, so updateMetrics runs
\* twice.  The call record keeps the time since the session was opened.
stopMonitoring ==
    /\ IF ~isMonitoring
       THEN UNCHANGED <<pending, monitorVars, stale>>
       ELSE /\ isMonitoring' = FALSE
            /\ IF HasHandle(rafId)
               THEN pending' = pending \ {rafId} /\ rafId' = Null
               ELSE UNCHANGED <<pending, rafId>>
            /\ stale' = pending'
            /\ \E mem1, mem2 \in MemSamples :
                  metrics' = UpdateMetrics(
                                 UpdateMetrics(metrics, frameCount, droppedFrames,
                                               lastFrameTime, now, mem1),
                                 frameCount, droppedFrames, lastFrameTime, now, mem2)
            /\ UNCHANGED <<frameCount, droppedFrames, scrollEventCount,
                           lastFrameTime, renderStartTime>>
    /\ monitorStart' = 0
    /\ last' = [Call("stopMonitoring") EXCEPT
                   !.wasActive = isMonitoring,
                   !.arg = IF isMonitoring THEN now - monitorStart ELSE 0,
                   !.held = LastSummary(metrics')]
    /\ UNCHANGED <<now, errorVars, screenVars, renderSession, screenSession>>

startRenderTiming ==
    /\ renderStartTime' = PerformanceNow(now)
    /\ renderSession' = [at |-> now, n |-> IF renderSession.n = 0 THEN 1 ELSE 2]
    /\ last' = Call("startRenderTiming")
    /\ UNCHANGED <<now, errorVars, pending, isMonitoring, frameCount, droppedFrames,
                   scrollEventCount, lastFrameTime, rafId, metrics,
                   screenVars, screenSession, stale, monitorStart>>

endRenderTiming ==
    /\ IF RenderTimingPending(renderStartTime)
       THEN /\ metrics' = [metrics EXCEPT
                               !.renderTime = PerformanceNow(now) - renderStartTime]
            /\ renderStartTime' = 0
       ELSE UNCHANGED <<metrics, renderStartTime>>
    /\ renderSession' = NoSession
    /\ last' = [Call("endRenderTiming") EXCEPT !.session = renderSession]
    /\ UNCHANGED <<now, errorVars, pending, isMonitoring, frameCount, droppedFrames,
                   scrollEventCount, lastFrameTime, rafId,
                   screenVars, screenSession, stale, monitorStart>>

recordScrollEvent ==
    /\ scrollEventCount < MaxScroll
    /\ scrollEventCount' = scrollEventCount + 1
    /\ metrics' = [metrics EXCEPT !.scrollPerformance.scrollEvents = scrollEventCount + 1]
    /\ last' = [Call("recordScrollEvent") EXCEPT !.wasActive = isMonitoring,
                                                 !.held = LastSummary(metrics')]
    /\ UNCHANGED <<now, errorVars, pending, isMonitoring, frameCount, droppedFrames,
                   lastFrameTime, renderStartTime, rafId, screenVars, historyVars>>

updateListMetrics(totalItems, visibleItems, renderedItems) ==
    /\ metrics' = [metrics EXCEPT !.listMetrics =
                      [totalItems |-> totalItems,
                       visibleItems |-> visibleItems,
                       renderedItems |-> renderedItems,
                       recycledItems |-> RecycledItems(renderedItems, visibleItems)]]
    /\ last' = [Call("updateListMetrics") EXCEPT
                   !.arg = <<totalItems, visibleItems, renderedItems>>,
                   !.held = LastSummary(metrics')]
    /\ UNCHANGED <<now, errorVars, pending, isMonitoring, frameCount, droppedFrames,
                   scrollEventCount, lastFrameTime, renderStartTime, rafId,
                   screenVars, historyVars>>

\* The host runs the scheduled callback h with currentTime = the clock.
monitorFrame(h) ==
    /\ h \in pending
    /\ IF ~isMonitoring
       THEN /\ pending' = pending \ {h}
            /\ UNCHANGED monitorVars
            /\ last' = [Call("monitorFrame") EXCEPT
                           !.held = LastSummary(metrics')]
       ELSE LET deltaTime == now - lastFrameTime IN
            /\ frameCount < MaxFrames
            /\ frameCount' = frameCount + 1
            /\ droppedFrames' = CountDropped(droppedFrames, deltaTime)
            /\ lastFrameTime' = now
            /\ \E h2 \in FreeHandles(pending \ {h}) :
                  /\ rafId' = h2
                  /\ pending' = (pending \ {h}) \cup {h2}
            /\ UNCHANGED <<isMonitoring, scrollEventCount, renderStartTime, metrics>>
            /\ last' = [Call("monitorFrame") EXCEPT
                           !.wasActive = TRUE,
                           !.arg = deltaTime,
                           !.held = LastSummary(metrics')]
    /\ stale' = stale \ {h}
    /\ UNCHANGED <<now, errorVars, screenVars, renderSession, screenSession, monitorStart>>

\* Mutant: reading the summary starts a new counting window.
getMetricsAndRestart ==
    /\ \E mem \in MemSamples :
          metrics' = UpdateMetrics(metrics, frameCount, droppedFrames,
                                   lastFrameTime, now, mem)
    /\ frameCount' = 0
    /\ droppedFrames' = 0
    /\ last' = [Call("getMetrics") EXCEPT !.repeat = (last.op = "getMetrics"),
                                          !.afterReset = (last.op = "reset"),
                                          !.wasActive = isMonitoring,
                                          !.ret = metrics',
                                          !.held = LastSummary(metrics')]
    /\ UNCHANGED <<now, errorVars, pending, isMonitoring,
                   scrollEventCount, lastFrameTime, renderStartTime, rafId,
                   screenVars, historyVars>>

\* getMetrics: updateMetrics, then a shallow copy of the record.
getMetrics ==
    /\ \E mem \in MemSamples :
          metrics' = UpdateMetrics(metrics, frameCount, droppedFrames,
                                   lastFrameTime, now, mem)
    /\ last' = [Call("getMetrics") EXCEPT !.repeat = (last.op = "getMetrics"),
                                          !.afterReset = (last.op = "reset"),
                                          !.wasActive = isMonitoring,
                                          !.ret = metrics',
                                          !.held = LastSummary(metrics')]
    /\ UNCHANGED <<now, errorVars, pending, isMonitoring, frameCount, droppedFrames,
                   scrollEventCount, lastFrameTime, renderStartTime, rafId,
                   screenVars, historyVars>>

\* Mutant: reset keeps the list metrics.
ResetMetricsKeepingList(m) == [ZeroMetrics EXCEPT !.listMetrics = m.listMetrics]

\* reset, lines 245-263: this.metrics = { renderTime: 0, ... }
ResetMetrics(m) == ZeroMetrics

\* reset: stopMonitoring, then every counter is zeroed and this.metrics is
\* replaced by a new record of zeros.
reset ==
    /\ isMonitoring' = FALSE
    /\ IF isMonitoring /\ HasHandle(rafId)
       THEN pending' = pending \ {rafId} /\ rafId' = Null
       ELSE UNCHANGED <<pending, rafId>>
    /\ frameCount' = 0
    /\ droppedFrames' = 0
    /\ scrollEventCount' = 0
    /\ renderStartTime' = 0
    /\ lastFrameTime' = 0
    /\ metrics' = ResetMetrics(metrics)
    /\ renderSession' = NoSession
    /\ stale' = IF isMonitoring THEN pending' ELSE stale
    /\ monitorStart' = 0
    /\ \E mem1, mem2 \in MemSamples :
          LET stopped == IF isMonitoring
                         THEN UpdateMetrics(
                                  UpdateMetrics(metrics, frameCount, droppedFrames,
                                                lastFrameTime, now, mem1),
                                  frameCount, droppedFrames, lastFrameTime, now, mem2)
                         ELSE metrics
          IN last' = [Call("reset") EXCEPT !.wasActive = isMonitoring,
                                           !.held = LastSummary(stopped)]
    /\ UNCHANGED <<now, errorVars, screenVars, screenSession>>

----------------------------------------------------------------------------
(* FlatListPerformanceMonitor: recommendations and export *)

\* q < k for a JavaScript number q kept as a fraction: false for NaN and Infinity.
LessThan(q, k) == q.d # 0 /\ q.n < k * q.d

\* q > a / b: false for NaN, true for Infinity.
GreaterThan(q, a, b) == IF q.d = 0 THEN q.n # 0 ELSE b * q.n > a * q.d

\* The messages pushed at lines 209, 213, 217, 221, 226 and 230.
MsgLowFPS == "FPS too low"
MsgDroppedFrames == "many dropped frames"
MsgRenderTime == "render time too long"
MsgOverRendering == "too many rendered items"
MsgMemory == "memory usage too high"
MsgGood == "performing well"

\* line 208: metrics.scrollPerformance.averageFPS < 50
IsLowFPS(m) == LessThan(m.scrollPerformance.averageFPS, 50)

\* Mutant: ten dropped frames already raise the warning.
TooManyDroppedFramesInclusive(m) == m.scrollPerformance.droppedFrames >= 10

\* line 212: metrics.scrollPerformance.droppedFrames > 10
TooManyDroppedFrames(m) == m.scrollPerformance.droppedFrames > 10

\* line 216: metrics.renderTime > 16 (milliseconds; renderTime is in ticks)
IsSlowRender(m) == m.renderTime > 16 * 100

\* line 220: renderedItems > visibleItems * 3
IsOverRendering(m) == m.listMetrics.renderedItems > m.listMetrics.visibleItems * 3

\* Mutant: a heap that is exactly 80 % used already raises the warning.
IsHighMemoryInclusive(m) ==
    /\ m.memoryUsage.jsHeapSizeTotal > 0
    /\ 5 * m.memoryUsage.jsHeapSizeUsed >= 4 * m.memoryUsage.jsHeapSizeTotal

\* lines 224-225: (jsHeapSizeUsed / jsHeapSizeTotal) * 100 > 80, that is
\* jsHeapSizeUsed / jsHeapSizeTotal > 4 / 5
IsHighMemory(m) ==
    GreaterThan(Quotient(m.memoryUsage.jsHeapSizeUsed,
                         m.memoryUsage.jsHeapSizeTotal), 4, 5)

\* Heap readings for the recommendations: those of MemSamples and two on and
\* next to the 80 % threshold (48000000 / 60000000 is exactly 0.8).
SummaryMemSamples ==
    MemSamples \cup
    { [jsHeapSizeUsed |-> u, jsHeapSizeTotal |-> 60000000, jsHeapSizeLimit |-> HeapLimit] :
        u \in {48000000, 48000001} }

Push(list, cond, msg) == IF cond THEN Append(list, msg) ELSE list

\* Mutant: only the first matching advisory is returned.
RecommendationsFirstOnly(m) ==
    IF IsLowFPS(m) THEN <<MsgLowFPS>>
    ELSE IF TooManyDroppedFrames(m) THEN <<MsgDroppedFrames>>
    ELSE IF IsSlowRender(m) THEN <<MsgRenderTime>>
    ELSE IF IsOverRendering(m) THEN <<MsgOverRendering>>
    ELSE IF IsHighMemory(m) THEN <<MsgMemory>>
    ELSE <<MsgGood>>

\* getPerformanceRecommendations, lines 206-233, for the summary m it read.
Recommendations(m) ==
    LET r1 == Push(<<>>, IsLowFPS(m), MsgLowFPS)
        r2 == Push(r1, TooManyDroppedFrames(m), MsgDroppedFrames)
        r3 == Push(r2, IsSlowRender(m), MsgRenderTime)
        r4 == Push(r3, IsOverRendering(m), MsgOverRendering)
        r5 == Push(r4, IsHighMemory(m), MsgMemory)
    IN IF Len(r5) = 0 THEN <<MsgGood>> ELSE r5

\* getPerformanceRecommendations: getMetrics, then the advisories for what it
\* returned.  The call record keeps that summary as its argument.
getPerformanceRecommendations ==
    /\ \E mem \in SummaryMemSamples :
          metrics' = UpdateMetrics(metrics, frameCount, droppedFrames,
                                   lastFrameTime, now, mem)
    /\ last' = [Call("getPerformanceRecommendations") EXCEPT
                   !.wasActive = isMonitoring,
                   !.arg = metrics',
                   !.ret = Recommendations(metrics')]
    /\ UNCHANGED <<now, errorVars, pending, isMonitoring, frameCount, droppedFrames,
                   scrollEventCount, lastFrameTime, renderStartTime, rafId,
                   screenVars, historyVars>>

\* JSON.stringify of a number: NaN and Infinity are written as null.
JsonNumber(q) ==
    IF q.d = 0 THEN [kind |-> "null", value |-> [n |-> 0, d |-> 1]]
    ELSE [kind |-> "number", value |-> q]

\* JSON.parse of a number or null; null is kept as the fraction 0 / -1, which no
\* JavaScript number is.
JsonNull == [n |-> 0, d |-> 0 - 1]
ParseNumber(tok) == IF tok.kind = "null" THEN JsonNull ELSE tok.value

\* JSON.stringify(report, null, 2), lines 273-277: the integer fields and the
\* strings are written as they are, averageFPS by JsonNumber.
Stringify(report) ==
    [report EXCEPT !.metrics.scrollPerformance.averageFPS = JsonNumber(@)]

\* JSON.parse of such a text.
Parse(text) ==
    [text EXCEPT !.metrics.scrollPerformance.averageFPS = ParseNumber(@)]

\* exportMetrics: getMetrics, then getPerformanceRecommendations (which reads
\* getMetrics again: a second heap reading, and the first summary shares its
\* scrollPerformance with the record), then JSON.stringify.  The call record
\* keeps the report that was serialized as its argument.
exportMetrics ==
    /\ \E mem1, mem2 \in SummaryMemSamples :
          LET m1 == UpdateMetrics(metrics, frameCount, droppedFrames,
                                  lastFrameTime, now, mem1)
              m2 == UpdateMetrics(m1, frameCount, droppedFrames,
                                  lastFrameTime, now, mem2)
              report == [timestamp |-> DateNow(now),
                         metrics |-> Held(m1, m2),
                         recommendations |-> Recommendations(m2)]
          IN /\ metrics' = m2
             /\ last' = [Call("exportMetrics") EXCEPT
                            !.wasActive = isMonitoring,
                            !.arg = report,
                            !.ret = Stringify(report)]
    /\ UNCHANGED <<now, errorVars, pending, isMonitoring, frameCount, droppedFrames,
                   scrollEventCount, lastFrameTime, renderStartTime, rafId,
                   screenVars, historyVars>>

----------------------------------------------------------------------------
(* PerformanceMonitor (screen load times) *)

\* endScreenLoad, line 38: if (startTime)
StartTimeFound(startTime) == Truthy(startTime)

\* getMemoryUsage: usedJSHeapSize in development hosts that expose it, else undefined.
ScreenMemSamples == {Undefined, 10000000}

\* line 48, this.loadStartTimes.delete(screenName); the variant keeps the entry.
KeepPendingStart(startTimes, screenName) == startTimes

ClearPendingStart(startTimes, screenName) ==
    [startTimes EXCEPT ![screenName] = Undefined]

startScreenLoad(screenName) ==
    /\ loadStartTimes' = [loadStartTimes EXCEPT ![screenName] = DateNow(now)]
    /\ screenSession' = [screenSession EXCEPT ![screenName] =
                            [at |-> DateNow(now), n |-> IF @.n = 0 THEN 1 ELSE 2]]
    /\ last' = [Call("startScreenLoad") EXCEPT !.arg = screenName]
    /\ UNCHANGED <<now, errorVars, pending, monitorVars, screenMetrics, renderSession, stale, monitorStart>>

endScreenLoad(screenName) ==
    LET startTime == loadStartTimes[screenName] IN
    /\ IF StartTimeFound(startTime)
       THEN /\ Len(screenMetrics) < MaxLoads
            /\ \E mem \in ScreenMemSamples :
                  screenMetrics' = Append(screenMetrics,
                                      [screenName |-> screenName,
                                       loadTime |-> DateNow(now) - startTime,
                                       timestamp |-> DateNow(now),
                                       memoryUsage |-> mem])
            /\ loadStartTimes' = ClearPendingStart(loadStartTimes, screenName)
       ELSE UNCHANGED screenVars
    /\ screenSession' = [screenSession EXCEPT ![screenName] = NoSession]
    /\ last' = [Call("endScreenLoad") EXCEPT !.arg = screenName,
                                             !.session = screenSession[screenName]]
    /\ UNCHANGED <<now, errorVars, pending, monitorVars, renderSession, stale, monitorStart>>

\* PerformanceMonitor.getMetrics: a copy of the list.
getScreenMetrics ==
    /\ last' = [Call("getScreenMetrics") EXCEPT
                   !.repeat = (last.op = "getScreenMetrics"),
                   !.ret = screenMetrics]
    /\ UNCHANGED <<now, errorVars, pending, monitorVars, screenVars, historyVars>>

\* this.metrics.filter(m => m.screenName === screenName)
MetricsOf(list, screenName) == SelectSeq(list, LAMBDA m : m.screenName = screenName)

\* reduce((sum, m) => sum + m.loadTime, 0)
RECURSIVE TotalTime(_)
TotalTime(list) ==
    IF Len(list) = 0 THEN 0 ELSE list[1].loadTime + TotalTime(Tail(list))

Min(a, b) == IF a <= b THEN a ELSE b

\* Mutant: the rounded average is one too high.
RoundedQuotientPlusOne(total, count) == total \div count + 1

\* Math.round(total / count) for total >= 0, count > 0: halves round up.
RoundedQuotient(total, count) == (2 * total + count) \div (2 * count)

\* getAverageLoadTime, lines 80-84.
getAverageLoadTime(screenName) ==
    LET ofScreen == MetricsOf(screenMetrics, screenName) IN
    /\ last' = [Call("getAverageLoadTime") EXCEPT
                   !.arg = screenName,
                   !.ret = IF Len(ofScreen) = 0 THEN [n |-> 0, d |-> 1]
                           ELSE Quotient(TotalTime(ofScreen), Len(ofScreen))]
    /\ UNCHANGED <<now, errorVars, pending, monitorVars, screenVars, historyVars>>

\* generateReport, lines 100-114: the statistics of one screen, folded over the
\* metrics in order from { count: 0, totalTime: 0, minTime: Infinity, maxTime: 0 }.
\* Math.min(Infinity, x) is x, so minTime after the first metric is its loadTime.
RECURSIVE ScreenStats(_)
ScreenStats(list) ==
    IF Len(list) = 1
    THEN [count |-> 1, totalTime |-> list[1].loadTime,
          minTime |-> list[1].loadTime, maxTime |-> Max(0, list[1].loadTime)]
    ELSE LET stats == ScreenStats(SubSeq(list, 1, Len(list) - 1))
             metric == list[Len(list)]
         IN [count |-> stats.count + 1,
             totalTime |-> stats.totalTime + metric.loadTime,
             minTime |-> Min(stats.minTime, metric.loadTime),
             maxTime |-> Max(stats.maxTime, metric.loadTime)]

\* generateReport: the figures the report prints, per screen that has a metric
\* (count, avgTime, minTime, maxTime) and overall; noData for the empty list.
generateReport ==
    LET present == {screenMetrics[i].screenName : i \in 1..Len(screenMetrics)}
        lines == [ s \in present |->
                     LET stats == ScreenStats(MetricsOf(screenMetrics, s))
                     IN [count |-> stats.count,
                         avgTime |-> RoundedQuotient(stats.totalTime, stats.count),
                         minTime |-> stats.minTime,
                         maxTime |-> stats.maxTime] ]
    IN
    /\ last' = [Call("generateReport") EXCEPT
                   !.ret = IF Len(screenMetrics) = 0
                           THEN [noData |-> TRUE, screens |-> lines,
                                 totalMetrics |-> 0, avgLoadTime |-> 0]
                           ELSE [noData |-> FALSE, screens |-> lines,
                                 totalMetrics |-> Len(screenMetrics),
                                 avgLoadTime |->
                                     RoundedQuotient(TotalTime(screenMetrics),
                                                     Len(screenMetrics))]]
    /\ UNCHANGED <<now, errorVars, pending, monitorVars, screenVars, historyVars>>

clearMetrics ==
    /\ screenMetrics' = <<>>
    /\ loadStartTimes' = [s \in Screens |-> Undefined]
    /\ screenSession' = [s \in Screens |-> NoSession]
    /\ last' = Call("clearMetrics")
    /\ UNCHANGED <<now, errorVars, pending, monitorVars, renderSession, stale, monitorStart>>

----------------------------------------------------------------------------
(* The program has three parts that share only the clock and, within the list
   monitor, the metrics record: the screen-load monitor, the render timing of
   the list monitor (renderStartTime, metrics.renderTime) and its frame sampler
   (the counters, the scheduled callbacks, metrics.scrollPerformance).
   updateListMetrics, getMetrics and reset belong to the list monitor as a whole.

   The model bounds the client to exercise one part at a time: a call on one
   part is taken while the other parts hold no data (they are fresh, or were
   reset / cleared). *)

SamplerIdle ==
    /\ ~isMonitoring /\ pending = {} /\ stale = {}
    /\ frameCount = 0 /\ droppedFrames = 0 /\ scrollEventCount = 0
    /\ lastFrameTime = 0
    /\ metrics.scrollPerformance.droppedFrames = 0
    /\ metrics.scrollPerformance.scrollEvents = 0

TimingIdle ==
    /\ renderStartTime = 0 /\ renderSession = NoSession
    /\ metrics.renderTime = 0

MonitorIdle ==
    /\ SamplerIdle /\ TimingIdle
    /\ metrics = ZeroMetrics

ScreenIdle ==
    /\ screenMetrics = <<>>
    /\ \A s \in Screens : loadStartTimes[s] = Undefined /\ screenSession[s] = NoSession

Next ==
    \/ \E d \in TickSteps : Tick(d)
    \/ ScreenIdle /\ TimingIdle /\ startMonitoring
    \/ ScreenIdle /\ TimingIdle /\ stopMonitoring
    \/ ScreenIdle /\ TimingIdle /\ recordScrollEvent
    \/ ScreenIdle /\ TimingIdle /\ \E h \in Handles : monitorFrame(h)
    \/ ScreenIdle /\ SamplerIdle /\ startRenderTiming
    \/ ScreenIdle /\ SamplerIdle /\ endRenderTiming
    \/ ScreenIdle /\ \E in \in ListInputs : updateListMetrics(in[1], in[2], in[3])
    \/ ScreenIdle /\ getMetrics
    \/ ScreenIdle /\ reset
    \/ MonitorIdle /\ \E s \in Screens : startScreenLoad(s)
    \/ MonitorIdle /\ \E s \in Screens : endScreenLoad(s)
    \/ MonitorIdle /\ getScreenMetrics
    \/ MonitorIdle /\ \E s \in Screens : getAverageLoadTime(s)
    \/ MonitorIdle /\ generateReport
    \/ MonitorIdle /\ clearMetrics

Spec == Init /\ [][Next]_vars

----------------------------------------------------------------------------
(* ErrorHandler: the log of errors.  An ErrorInfo is modelled by its identity,
   the number of the error in logging order; type, message and stack are not
   read by the log's own code. *)

\* line 300
maxLogs == 100

ErrorTypes == {"fatal", "promise", "component", "custom"}

\* Array.prototype.unshift and slice(0, n)
Unshift(list, item) == <<item>> \o list
Slice0(list, n) == SubSeq(list, 1, IF n < Len(list) THEN n ELSE Len(list))

\* a variant that keeps the oldest entries
TrimmedFromEnd(logs) ==
    IF Len(logs) > maxLogs THEN SubSeq(logs, Len(logs) - maxLogs + 1, Len(logs)) ELSE logs

\* lines 399-401
Trimmed(logs) ==
    IF Len(logs) > maxLogs THEN Slice0(logs, maxLogs) ELSE logs

\* logError's effect on the log (lines 398-401), for the next error
LogError ==
    /\ errorCount < MaxErrors
    /\ errorCount' = errorCount + 1
    /\ errorLogs' = Trimmed(Unshift(errorLogs, [id |-> errorCount + 1]))
    /\ logged' = Unshift(logged, [id |-> errorCount + 1])
    /\ UNCHANGED <<now, pending, monitorVars, screenVars, historyVars>>

\* a direct call of the public logError
logError ==
    /\ LogError
    /\ last' = Call("logError")

\* the handler installed by setupGlobalErrorHandler
globalErrorHandler(isFatal) ==
    /\ LogError
    /\ last' = [Call("globalErrorHandler") EXCEPT
                    !.arg = IF isFatal THEN "fatal" ELSE "custom"]

\* the tracker installed by setupUnhandledPromiseRejection
unhandledPromiseRejection ==
    /\ LogError
    /\ last' = [Call("unhandledPromiseRejection") EXCEPT !.arg = "promise"]

reportError(type) ==
    /\ LogError
    /\ last' = [Call("reportError") EXCEPT !.arg = type]

\* a copy of the log
getErrorLogs ==
    /\ last' = [Call("getErrorLogs") EXCEPT !.ret = errorLogs]
    /\ UNCHANGED <<now, pending, monitorVars, screenVars, historyVars, errorVars>>

clearErrorLogs ==
    /\ errorLogs' = <<>>
    /\ logged' = <<>>
    /\ last' = Call("clearErrorLogs")
    /\ UNCHANGED <<now, pending, monitorVars, screenVars, historyVars, errorCount>>

ErrorLogNext ==
    \/ logError
    \/ \E isFatal \in BOOLEAN : globalErrorHandler(isFatal)
    \/ unhandledPromiseRejection
    \/ \E type \in ErrorTypes : reportError(type)
    \/ getErrorLogs
    \/ clearErrorLogs

ErrorLogSpec == Init /\ [][ErrorLogNext]_vars

----------------------------------------------------------------------------
(* The list monitor on a host without a frame scheduler: no callback is ever
   scheduled, so none runs; the other methods are the same code. *)

NoSchedulerNext ==
    \/ \E d \in TickSteps : Tick(d)
    \/ startMonitoringNoScheduler
    \/ stopMonitoring
    \/ recordScrollEvent
    \/ \E in \in ListInputs : updateListMetrics(in[1], in[2], in[3])
    \/ getMetrics
    \/ reset

NoSchedulerSpec == Init /\ [][NoSchedulerNext]_vars

----------------------------------------------------------------------------
(* The recommendations and the export are functions of the monitor's state at
   the call.  They are checked from a set of states of a Running sampler, each
   of them one the program reaches after startMonitoring, some frame callbacks,
   a render timing and an updateListMetrics call: the sampler has counted
   frameCount frames of which droppedFrames were dropped, the last one at
   lastFrameTime, and the clock has advanced by sinceLastFrame since. *)

\* frameCount, droppedFrames, sinceLastFrame (ticks).  averageFPS is
\* frameCount * 100000 / (sinceLastFrame + frameCount * 1667):
\*   <<0, 0, 0>>        NaN (read in the instant of startMonitoring)
\*   <<40, 15, 33320>>  exactly 40
\*   <<50, 0, 16650>>, <<50, 10, 16650>>, <<50, 11, 16650>>  exactly 50
\*   <<50, 0, 16651>>, <<50, 10, 16651>>  just below 50
\*   <<60, 10, 0>>, <<60, 11, 0>>  about 59.99
SampledFrames == {<<0, 0, 0>>, <<40, 15, 33320>>, <<50, 0, 16650>>,
                  <<50, 10, 16650>>, <<50, 11, 16650>>, <<50, 0, 16651>>,
                  <<50, 10, 16651>>, <<60, 10, 0>>, <<60, 11, 0>>}

\* metrics.renderTime in ticks: 0, 16 ms, 16.01 ms, 20 ms.
RenderTimes == {0, 1600, 1601, 2000}

\* Arguments of the last updateListMetrics call.
SummaryListInputs == {<<0, 0, 0>>, <<100, 20, 60>>, <<100, 20, 61>>, <<100, 20, 100>>}

SummaryInit ==
    /\ \E f \in SampledFrames :
          /\ frameCount = f[1]
          /\ droppedFrames = f[2]
          /\ lastFrameTime = 100000
          /\ now = 100000 + f[3]
    /\ \E r \in RenderTimes, in \in SummaryListInputs :
          metrics = [ZeroMetrics EXCEPT
                        !.renderTime = r,
                        !.listMetrics =
                            [totalItems |-> in[1],
                             visibleItems |-> in[2],
                             renderedItems |-> in[3],
                             recycledItems |-> RecycledItems(in[3], in[2])]]
    /\ isMonitoring = TRUE
    /\ rafId = 1
    /\ pending = {1}
    /\ scrollEventCount = 0
    /\ renderStartTime = 0
    /\ loadStartTimes = [s \in Screens |-> Undefined]
    /\ screenMetrics = <<>>
    /\ renderSession = NoSession
    /\ screenSession = [s \in Screens |-> NoSession]
    /\ stale = {}
    /\ monitorStart = 0
    /\ errorLogs = <<>>
    /\ errorCount = 0
    /\ logged = <<>>
    /\ last = Call("init")

SummaryNext ==
    \/ getPerformanceRecommendations
    \/ exportMetrics

SummarySpec == SummaryInit /\ [][SummaryNext]_vars

----------------------------------------------------------------------------
(* Claims *)

LastLoad == screenMetrics[Len(screenMetrics)]

\* C1: a start at any clock value t (t = 0 included) followed by an end after the
\* clock advanced by d records the elapsed time d: renderTime = d in the list
\* monitor, a new metric with loadTime = d in the screen monitor.
C1_ElapsedIsClockAdvance ==
    /\ (last.op = "endRenderTiming" /\ last.session.n > 0)
          => metrics.renderTime = now - last.session.at
    /\ (last.op = "endScreenLoad" /\ last.session.n > 0)
          => /\ Len(screenMetrics) > 0
             /\ LastLoad.screenName = last.arg
             /\ LastLoad.loadTime = DateNow(now) - last.session.at

\* C2: an end with no start pending changes nothing: no sample is recorded and
\* renderTime / the metrics list keep their values.
C2_EndWithoutStartIsNoOp ==
    [][ /\ (last'.op = "endRenderTiming" /\ renderSession = NoSession)
             => UNCHANGED <<now, pending, monitorVars, screenVars>>
        /\ \A s \in Screens :
             (last'.op = "endScreenLoad" /\ last'.arg = s /\ screenSession[s] = NoSession)
             => UNCHANGED <<now, pending, monitorVars, screenVars>> ]_vars

\* C2 witness: an end was called with no start pending while an earlier elapsed
\* time was on record.
C2_Witness ==
    /\ last.op = "endRenderTiming"
    /\ last.session = NoSession
    /\ metrics.renderTime > 0

\* C3: after two starts at t1 <= t2 with no end between them, the end at t3
\* records the elapsed time t3 - t2.
C3_LastStartWins ==
    /\ (last.op = "endRenderTiming" /\ last.session.n = 2)
          => metrics.renderTime = now - last.session.at
    /\ (last.op = "endScreenLoad" /\ last.session.n = 2)
          => /\ Len(screenMetrics) > 0
             /\ LastLoad.screenName = last.arg
             /\ LastLoad.loadTime = DateNow(now) - last.session.at

\* C4: startMonitoring while Running changes nothing: the counters and
\* lastFrameTime are not reset and no callback is scheduled.
C4_DoubleStartIsNoOp ==
    [][ (last'.op = "startMonitoring" /\ isMonitoring)
          => UNCHANGED <<now, pending, monitorVars, screenVars>> ]_vars

\* C4 witness: startMonitoring was called on a Running sampler that had counted
\* a frame and a scroll event some time ago.
C4_Witness ==
    /\ last.op = "startMonitoring" /\ last.wasActive
    /\ isMonitoring
    /\ frameCount > 0 /\ scrollEventCount > 0
    /\ lastFrameTime < now
    /\ Cardinality(pending) = 1

\* C5: startMonitoring on a sampler that is not Running leaves it Running with
\* frameCount = 0, droppedFrames = 0 and exactly one callback scheduled.
C5_StartSchedulesOneCallback ==
    (last.op = "startMonitoring" /\ ~last.wasActive)
      => /\ isMonitoring
         /\ frameCount = 0 /\ droppedFrames = 0
         /\ Cardinality(pending) = 1

C7_LateCallbackIsDiscarded ==
    [][ (last'.op = "monitorFrame" /\ stale' # stale)
          => /\ UNCHANGED <<frameCount, droppedFrames, lastFrameTime>>
             /\ pending' = pending \ (stale \ stale') ]_vars

\* C8: at most one frame callback is scheduled at any time.
C8_AtMostOnePendingCallback == Cardinality(pending) <= 1

\* C9: updateListMetrics(total, visible, rendered) stores the three values with
\* recycledItems = max(0, rendered - visible), never negative, and changes
\* nothing else.
C9_UpdateListMetrics ==
    [][ last'.op = "updateListMetrics"
          => LET a == last'.arg
                 lm == metrics'.listMetrics
             IN /\ lm.totalItems = a[1]
                /\ lm.visibleItems = a[2]
                /\ lm.renderedItems = a[3]
                /\ lm.recycledItems = (IF a[3] > a[2] THEN a[3] - a[2] ELSE 0)
                /\ lm.recycledItems >= 0
                /\ metrics' = [metrics EXCEPT !.listMetrics = lm]
                /\ UNCHANGED <<now, pending, isMonitoring, frameCount, droppedFrames,
                               scrollEventCount, lastFrameTime, renderStartTime,
                               rafId, screenVars>> ]_vars

\* C9 witness: updateListMetrics(100, 20, 10) was called on a Running sampler
\* that had counted a frame, and recycledItems is 0.
C9_Witness ==
    /\ last.op = "updateListMetrics"
    /\ last.arg = <<100, 20, 10>>
    /\ metrics.listMetrics.recycledItems = 0
    /\ isMonitoring /\ frameCount > 0

\* A summary without its heap reading.
WithoutMemory(summary) == [summary EXCEPT !.memoryUsage = ZeroMetrics.memoryUsage]

\* C10 as stated: getMetrics leaves the monitor's state unchanged, and two
\* getMetrics calls in a row return equal summaries.
C10_GetMetricsChangesNothing ==
    [][ /\ last'.op = "getMetrics"
             => UNCHANGED <<now, pending, monitorVars, screenVars>>
        /\ (last.op = "getMetrics" /\ last'.op = "getMetrics")
             => last'.ret = last.ret
        /\ last'.op = "getScreenMetrics"
             => UNCHANGED <<now, pending, monitorVars, screenVars>>
        /\ (last.op = "getScreenMetrics" /\ last'.op = "getScreenMetrics")
             => last'.ret = last.ret ]_vars

\* C10 amended: getMetrics resets no counter and changes nothing but the cached
\* averageFPS, droppedFrames and memoryUsage of the metrics record; two
\* getMetrics calls in a row return summaries that are equal except for
\* memoryUsage (a NaN averageFPS counts as equal to itself); the screen
\* monitor's getMetrics changes nothing and returns the metrics list.
C10_GetMetricsResetsNoCounter ==
    [][ /\ last'.op = "getMetrics"
             => /\ UNCHANGED <<now, pending, isMonitoring, frameCount, droppedFrames,
                               scrollEventCount, lastFrameTime, renderStartTime,
                               rafId, screenVars>>
                /\ metrics'.renderTime = metrics.renderTime
                /\ metrics'.listMetrics = metrics.listMetrics
                /\ metrics'.scrollPerformance.scrollEvents
                      = metrics.scrollPerformance.scrollEvents
                /\ metrics'.scrollPerformance.droppedFrames = droppedFrames
                /\ last'.ret = metrics'
        /\ (last.op = "getMetrics" /\ last'.op = "getMetrics")
             => WithoutMemory(last'.ret) = WithoutMemory(last.ret)
        /\ last'.op = "getScreenMetrics"
             => /\ UNCHANGED <<now, pending, monitorVars, screenVars>>
                /\ last'.ret = screenMetrics ]_vars

\* C10 witness: getMetrics was called twice in a row on a Running sampler that
\* had counted a dropped frame and a scroll event.
C10_Witness ==
    /\ last.op = "getMetrics" /\ last.repeat
    /\ isMonitoring
    /\ frameCount > 0 /\ droppedFrames > 0 /\ scrollEventCount > 0
\* C11: the values of a summary returned by getMetrics, its nested
\* scrollPerformance, memoryUsage and listMetrics records included, are not
\* changed by a later recordScrollEvent, updateListMetrics, frame callback,
\* getMetrics, stopMonitoring or reset.
C11_SummaryIsImmutable ==
    [][ (/\ last.op = "getMetrics"
         /\ last'.op \in {"recordScrollEvent", "updateListMetrics", "monitorFrame",
                          "getMetrics", "stopMonitoring", "reset"})
          => last'.held = last.ret ]_vars
\* C12: the getMetrics call that follows reset, whatever state reset was called
\* in, reports frameCount 0, droppedFrames 0, scrollEvents 0 and totalItems,
\* visibleItems, renderedItems and recycledItems all 0.
C12_ResetZeroesCounters ==
    (last.op = "getMetrics" /\ last.afterReset)
      => /\ frameCount = 0
         /\ last.ret.scrollPerformance.droppedFrames = 0
         /\ last.ret.scrollPerformance.scrollEvents = 0
         /\ last.ret.listMetrics = ZeroMetrics.listMetrics

\* C12 witness: getMetrics was called after a reset that had stopped a Running
\* sampler whose callback is still scheduled.
C12_Witness ==
    /\ last.op = "getMetrics" /\ last.afterReset
    /\ pending # {} /\ now > 0

\* C13: every field of the summary returned by the getMetrics call that follows
\* reset is zero, renderTime, averageFPS and the memoryUsage fields included.
C13_ResetSummaryAllZero ==
    (last.op = "getMetrics" /\ last.afterReset) => last.ret = ZeroMetrics

\* C14: when reset returns the sampler is not Running, no frame callback is
\* scheduled and no render timing start is pending; when clearMetrics returns
\* the screen monitor holds no metric and no pending start.
C14_ResetQuiesces ==
    /\ last.op = "reset"
          => ~isMonitoring /\ pending = {} /\ ~RenderTimingPending(renderStartTime)
    /\ last.op = "clearMetrics"
          => /\ screenMetrics = <<>>
             /\ \A s \in Screens : ~StartTimeFound(loadStartTimes[s])
Advisories == {last.ret[i] : i \in 1..Len(last.ret)}

\* C15: the recommendations are every matching advisory in the order low-FPS,
\* frequent-drop, render-time, over-rendering, high-memory; for averageFPS = 40,
\* droppedFrames = 15, renderTime = 20 ms, renderedItems = 100, visibleItems = 20
\* (and a healthy heap) they are exactly the first four, in that order.
C15_AllMatchingInTableOrder ==
    last.op = "getPerformanceRecommendations" =>
      LET m == last.arg
          fps == m.scrollPerformance.averageFPS
          heapUsed == m.memoryUsage.jsHeapSizeUsed
          heapTotal == m.memoryUsage.jsHeapSizeTotal
          table == << <<MsgLowFPS, fps.d > 0 /\ fps.n < 50 * fps.d>>,
                      <<MsgDroppedFrames, m.scrollPerformance.droppedFrames > 10>>,
                      <<MsgRenderTime, m.renderTime > 1600>>,
                      <<MsgOverRendering,
                        m.listMetrics.renderedItems > 3 * m.listMetrics.visibleItems>>,
                      <<MsgMemory, heapTotal > 0 /\ 5 * heapUsed > 4 * heapTotal>> >>
          Row(msg) == CHOOSE k \in 1..5 : table[k][1] = msg
      IN /\ \A k \in 1..5 : table[k][2] <=> table[k][1] \in Advisories
         /\ \A i, j \in 1..Len(last.ret) :
               (i < j /\ last.ret[i] # MsgGood /\ last.ret[j] # MsgGood)
                  => Row(last.ret[i]) < Row(last.ret[j])
         /\ ( /\ fps = [n |-> 40, d |-> 1]
              /\ m.scrollPerformance.droppedFrames = 15
              /\ m.renderTime = 2000
              /\ m.listMetrics.renderedItems = 100
              /\ m.listMetrics.visibleItems = 20
              /\ 5 * heapUsed <= 4 * heapTotal )
             => last.ret = <<MsgLowFPS, MsgDroppedFrames, MsgRenderTime, MsgOverRendering>>

\* C15 witness: the recommendations were read for averageFPS = 40, 15 dropped
\* frames, a render time of 20 ms and 100 rendered for 20 visible items.
C15_Witness ==
    /\ last.op = "getPerformanceRecommendations"
    /\ last.arg.scrollPerformance.averageFPS = [n |-> 40, d |-> 1]
    /\ last.arg.scrollPerformance.droppedFrames = 15
    /\ last.arg.renderTime = 2000
    /\ last.arg.listMetrics.renderedItems = 100
    /\ last.arg.listMetrics.visibleItems = 20
    /\ Len(last.ret) = 4

\* C16: the recommendations are the single 'performing well' message exactly
\* when no threshold condition holds; they are never empty and never mix
\* 'performing well' with a warning.
C16_PerformingWellIffHealthy ==
    last.op = "getPerformanceRecommendations" =>
      LET m == last.arg
          fps == m.scrollPerformance.averageFPS
          healthy ==
            /\ ~(fps.d > 0 /\ fps.n < 50 * fps.d)
            /\ m.scrollPerformance.droppedFrames <= 10
            /\ m.renderTime <= 1600
            /\ m.listMetrics.renderedItems <= 3 * m.listMetrics.visibleItems
            /\ ~(m.memoryUsage.jsHeapSizeTotal > 0
                 /\ 5 * m.memoryUsage.jsHeapSizeUsed
                      > 4 * m.memoryUsage.jsHeapSizeTotal)
      IN /\ Len(last.ret) >= 1
         /\ healthy <=> last.ret = <<MsgGood>>
         /\ MsgGood \in Advisories => Len(last.ret) = 1

\* C16 witness: every metric sat exactly on its threshold (averageFPS 50, 10
\* dropped frames, 16 ms, 60 rendered for 20 visible items) and the result is
\* the 'performing well' message alone.
C16_Witness ==
    /\ last.op = "getPerformanceRecommendations"
    /\ last.arg.scrollPerformance.averageFPS = [n |-> 50, d |-> 1]
    /\ last.arg.scrollPerformance.droppedFrames = 10
    /\ last.arg.renderTime = 1600
    /\ last.arg.listMetrics.renderedItems = 60
    /\ last.ret = <<MsgGood>>

\* C18: parsing the text returned by exportMetrics gives back the metrics and
\* the recommendations that were exported, in every state, those with a
\* non-finite averageFPS included.
C18_ExportRoundTrip ==
    last.op = "exportMetrics" =>
      /\ Parse(last.ret).metrics = last.arg.metrics
      /\ Parse(last.ret).recommendations = last.arg.recommendations
\* C17: when stopMonitoring returns, averageFPS is frameCount divided by the
\* time in seconds from the startMonitoring call that opened the session to
\* the stop, whatever the frame intervals were.
C17_AverageFPSOverSession ==
    (last.op = "stopMonitoring" /\ last.wasActive)
      => metrics.scrollPerformance.averageFPS = Quotient(frameCount * 100000, last.arg)
LoadTimesOf(screenName) ==
    {screenMetrics[i].loadTime :
        i \in {k \in 1..Len(screenMetrics) : screenMetrics[k].screenName = screenName}}

\* C19: for every screen with a recorded load, generateReport's minTime <=
\* avgTime <= maxTime and getAverageLoadTime lies between the smallest and the
\* largest loadTime of the screen; for a screen with no load the average is 0.
C19_MinAvgMaxOrdered ==
    /\ last.op = "generateReport" =>
          \A s \in DOMAIN last.ret.screens :
             LET line == last.ret.screens[s]
             IN line.minTime <= line.avgTime /\ line.avgTime <= line.maxTime
    /\ last.op = "getAverageLoadTime" =>
          LET avg == last.ret
              loads == LoadTimesOf(last.arg)
          IN IF loads = {}
             THEN avg.n = 0 /\ avg.d = 1
             ELSE /\ avg.d > 0
                  /\ \E lo \in loads : lo * avg.d <= avg.n
                  /\ \E hi \in loads : avg.n <= hi * avg.d

\* C19 witness: the report was generated with a screen that has two loads of
\* different length, so that minTime < avgTime < maxTime.
C19_Witness ==
    /\ last.op = "generateReport"
    /\ \E s \in DOMAIN last.ret.screens :
          /\ last.ret.screens[s].count = 2
          /\ last.ret.screens[s].minTime < last.ret.screens[s].avgTime
          /\ last.ret.screens[s].avgTime < last.ret.screens[s].maxTime

\* C20: samples are folded into count/sum/min/max and not kept: recording a
\* load for a screen that already has one does not make the stored state grow.
C20_SamplesAreNotRetained ==
    [][ (/\ last'.op = "endScreenLoad"
         /\ \E i \in 1..Len(screenMetrics) : screenMetrics[i].screenName = last'.arg)
          => Len(screenMetrics') <= Len(screenMetrics) ]_vars
\* C21: for distinct screens a and b, startScreenLoad(b) and endScreenLoad(b),
\* a second start on b included, change neither the pending start time of a nor
\* the metrics recorded for a; and in interleaved sessions (an end on a screen
\* while another screen's start is pending or has just been ended) every end
\* records the elapsed time of its own screen.
C21_ScreensAreIndependent ==
    [][ /\ \A a, b \in Screens :
             (a # b /\ last'.op \in {"startScreenLoad", "endScreenLoad"}
                    /\ last'.arg = b)
               => /\ loadStartTimes'[a] = loadStartTimes[a]
                  /\ MetricsOf(screenMetrics', a) = MetricsOf(screenMetrics, a)
        /\ \A a, b \in Screens :
             (/\ a # b
              /\ last'.op = "endScreenLoad" /\ last'.arg = a
              /\ screenSession[a].n > 0
              /\ \/ screenSession[b].n > 0
                 \/ (last.op = "endScreenLoad" /\ last.arg = b))
               => /\ Len(screenMetrics') = Len(screenMetrics) + 1
                  /\ screenMetrics'[Len(screenMetrics')].screenName = a
                  /\ screenMetrics'[Len(screenMetrics')].loadTime
                        = DateNow(now) - screenSession[a].at ]_vars
\* C22: every recordScrollEvent call, Running or not, raises the reported
\* scroll-event count (metrics.scrollPerformance.scrollEvents, which getMetrics
\* returns as it is) by exactly 1 and changes neither frameCount nor
\* droppedFrames nor lastFrameTime; a frame callback never changes the
\* scroll-event count.
C22_ScrollTallyIsIndependent ==
    [][ /\ last'.op = "recordScrollEvent"
             => /\ metrics'.scrollPerformance.scrollEvents
                      = metrics.scrollPerformance.scrollEvents + 1
                /\ UNCHANGED <<frameCount, droppedFrames, lastFrameTime>>
        /\ last'.op = "monitorFrame"
             => /\ UNCHANGED scrollEventCount
                /\ metrics'.scrollPerformance.scrollEvents
                      = metrics.scrollPerformance.scrollEvents ]_vars

\* C28: in every state the reported scroll-event count
\* (metrics.scrollPerformance.scrollEvents) equals scrollEventCount; right
\* after a stop followed by a new startMonitoring it is 0.
C28_ReportedScrollEventsMatchCounter ==
    metrics.scrollPerformance.scrollEvents = scrollEventCount

\* C29: after every call and every frame callback the sampler is Running
\* exactly when a frame callback is scheduled, and then rafId is its handle;
\* after stopMonitoring or reset none is scheduled, whatever handle the host
\* returned, 0 included.
C29_RunningIffCallbackScheduled ==
    /\ isMonitoring <=> pending # {}
    /\ isMonitoring => rafId \in pending

\* C30: 0 <= droppedFrames <= frameCount in every state, and neither counter
\* decreases except by a startMonitoring that opens a session or by reset.
C30_DroppedAtMostSampled ==
    [][ /\ 0 <= droppedFrames' /\ droppedFrames' <= frameCount'
        /\ ~(last'.op = "reset" \/ (last'.op = "startMonitoring" /\ ~isMonitoring))
             => frameCount' >= frameCount /\ droppedFrames' >= droppedFrames ]_vars

\* C30 witness: a sampler was stopped after its only counted frame was a
\* dropped one, so that droppedFrames = frameCount > 0.
C30_Witness ==
    /\ last.op = "stopMonitoring" /\ last.wasActive
    /\ frameCount > 0 /\ droppedFrames = frameCount
\* C26: the thresholds are strict.  A summary with averageFPS exactly 50, 10
\* dropped frames, a render time of exactly 16 ms, renderedItems = 3 x
\* visibleItems and heap used / total exactly 0.80 gets the 'performing well'
\* message alone; a summary in which exactly one value is past its threshold
\* gets exactly that value's warning.
C26_ThresholdsAreStrict ==
    last.op = "getPerformanceRecommendations" =>
      LET m == last.arg
          fps == m.scrollPerformance.averageFPS
          dropped == m.scrollPerformance.droppedFrames
          rendered == m.listMetrics.renderedItems
          visible == m.listMetrics.visibleItems
          heapUsed == m.memoryUsage.jsHeapSizeUsed
          heapTotal == m.memoryUsage.jsHeapSizeTotal
          past == << fps.d > 0 /\ fps.n < 50 * fps.d,
                     dropped > 10,
                     m.renderTime > 1600,
                     rendered > 3 * visible,
                     heapTotal > 0 /\ 5 * heapUsed > 4 * heapTotal >>
          warning == <<MsgLowFPS, MsgDroppedFrames, MsgRenderTime,
                       MsgOverRendering, MsgMemory>>
      IN /\ ( /\ fps = [n |-> 50, d |-> 1]
              /\ dropped = 10
              /\ m.renderTime = 1600
              /\ rendered = 3 * visible
              /\ heapTotal > 0 /\ 5 * heapUsed = 4 * heapTotal )
             => last.ret = <<MsgGood>>
         /\ \A k \in 1..5 :
               (past[k] /\ \A j \in 1..5 : j # k => ~past[j])
                  => last.ret = <<warning[k]>>

\* C26 witness: the recommendations were read with every value exactly on its
\* threshold, the heap at 48000000 of 60000000 bytes included.
C26_Witness ==
    /\ last.op = "getPerformanceRecommendations"
    /\ last.arg.scrollPerformance.averageFPS = [n |-> 50, d |-> 1]
    /\ last.arg.scrollPerformance.droppedFrames = 10
    /\ last.arg.renderTime = 1600
    /\ last.arg.listMetrics.renderedItems = 60
    /\ last.arg.listMetrics.visibleItems = 20
    /\ last.arg.memoryUsage.jsHeapSizeUsed = 48000000
    /\ last.arg.memoryUsage.jsHeapSizeTotal = 60000000
    /\ last.ret = <<MsgGood>>

\* C27: in every report made by exportMetrics the recommendations are what the
\* recommendation rules give for the metrics of that same report.
C27_ExportIsSelfConsistent ==
    last.op = "exportMetrics" =>
      last.arg.recommendations = Recommendations(last.arg.metrics)
\* C23: on a host without a frame scheduler startMonitoring, stopMonitoring,
\* reset and getMetrics do not raise, the sampler behaves as disabled (no frame
\* is ever counted) and getMetrics reports frameCount 0 and droppedFrames 0.
C23_NoSchedulerDoesNotRaise ==
    /\ ~last.raised
    /\ frameCount = 0 /\ droppedFrames = 0
    /\ last.op = "getMetrics" => last.ret.scrollPerformance.droppedFrames = 0
\* C25: an end of timing that records consumes the pending start: it adds
\* exactly one sample, for its own scope, and leaves no pending start for the
\* scope, so that the next end without a new start records nothing; a sample
\* is only ever added by an end that follows a start made since the scope's
\* previous end or the last clear, so the samples of a scope never outnumber
\* its starts.  The render timing of the list monitor likewise: an end that
\* records clears the pending start.
C25_EndConsumesPendingStart ==
    [][ /\ \A s \in Screens :
             Len(MetricsOf(screenMetrics', s)) > Len(MetricsOf(screenMetrics, s))
             => /\ last'.op = "endScreenLoad" /\ last'.arg = s
                /\ screenMetrics' = Append(screenMetrics, screenMetrics'[Len(screenMetrics')])
                /\ screenSession[s].n >= 1
                /\ screenSession'[s] = NoSession
                /\ ~StartTimeFound(loadStartTimes'[s])
        /\ \A s \in Screens :
             (last'.op = "endScreenLoad" /\ last'.arg = s /\ last.op = "endScreenLoad"
                /\ last.arg = s)
             => screenMetrics' = screenMetrics
        /\ (last'.op = "endRenderTiming" /\ RenderTimingPending(renderStartTime))
             => /\ ~RenderTimingPending(renderStartTime')
                /\ renderSession.n >= 1
                /\ renderSession' = NoSession
        /\ (last'.op = "endRenderTiming" /\ last.op = "endRenderTiming")
             => metrics' = metrics ]_vars

\* a second end of a screen load, right after the one that recorded the
\* screen's only sample
C25_Witness ==
    /\ last.op = "endScreenLoad"
    /\ last.session = NoSession
    /\ Len(MetricsOf(screenMetrics, last.arg)) = 1
    /\ ~StartTimeFound(loadStartTimes[last.arg])
\* C24: the error log holds at most 100 entries, newest first, and they are
\* exactly the (up to) 100 most recently logged errors since the last
\* clearErrorLogs; getErrorLogs returns them.
C24_LogKeepsMostRecent ==
    /\ Len(errorLogs) <= maxLogs
    /\ \A i \in 1..(Len(errorLogs) - 1) : errorLogs[i].id > errorLogs[i + 1].id
    /\ errorLogs = SubSeq(logged, 1, IF Len(logged) < maxLogs THEN Len(logged) ELSE maxLogs)
    /\ Len(errorLogs) > 0 => errorLogs[1].id = errorCount
    /\ last.op = "getErrorLogs" => last.ret = errorLogs

\* more than 100 errors were logged after a clear: the log is full and the
\* oldest of them is no longer in it
C24_Witness ==
    /\ Len(logged) > maxLogs
    /\ logged[Len(logged)].id > 1
    /\ Len(errorLogs) = maxLogs
    /\ errorLogs[maxLogs].id > logged[Len(logged)].id

====
